---- MODULE Spec2Model ----
(***************************************************************************)
(* A model of the secure filesystem server of src/index.ts: the path       *)
(* sandbox (validatePath), the tool handlers of the CallTool request       *)
(* handler, and the filesystem they act on.                                *)
(*                                                                         *)
(* Paths are strings, handled character by character as the code handles   *)
(* them (path.normalize, toLowerCase, startsWith).  The filesystem is a     *)
(* function from the absolute path of every existing node to the node.      *)
(* A request runs from one await of its handler to the next; several        *)
(* requests may be in flight.                                               *)
(***************************************************************************)
EXTENDS Naturals, Sequences, FiniteSets, TLC

VARIABLES fs, now, req, started, trashLog, backupLog, orphans, argv

vars == <<fs, now, req, started, trashLog, backupLog, orphans, argv>>

(***************************************************************************)
(* Bounds of the model.                                                     *)
(***************************************************************************)
\* Requests accepted in one behaviour.
MaxOps == 2
\* Last reading of the millisecond clock (readings are 0..MaxClock).
MaxClock == 1
\* Symbolic links followed by one path resolution before it gives up.
MaxSymlinks == 2

(***************************************************************************)
(* Strings.                                                                 *)
(***************************************************************************)
Ch(s, i) == SubSeq(s, i, i)

UpperCase == "ABCDEFGHIJKLMNOPQRSTUVWXYZ"
LowerCase == "abcdefghijklmnopqrstuvwxyz"

LowerChar(c) ==
    IF \E i \in 1..Len(UpperCase) : Ch(UpperCase, i) = c
    THEN Ch(LowerCase, CHOOSE i \in 1..Len(UpperCase) : Ch(UpperCase, i) = c)
    ELSE c

RECURSIVE toLowerCase(_)
toLowerCase(s) ==
    IF s = "" THEN "" ELSE LowerChar(Head(s)) \o toLowerCase(Tail(s))

\* String.prototype.startsWith: a prefix of characters.
startsWith(s, d) == Len(d) <= Len(s) /\ SubSeq(s, 1, Len(d)) = d

endsWith(s, d) ==
    Len(d) <= Len(s) /\ SubSeq(s, Len(s) - Len(d) + 1, Len(s)) = d

\* String.prototype.replace(/[:.]/g, '-')
RECURSIVE replaceColonDot(_)
replaceColonDot(s) ==
    IF s = "" THEN ""
    ELSE (IF Head(s) \in {":", "."} THEN "-" ELSE Head(s))
             \o replaceColonDot(Tail(s))

\* s.split("/"): the pieces between separators, empty pieces included.
RECURSIVE SplitFrom(_, _)
SplitFrom(s, cur) ==
    IF s = "" THEN <<cur>>
    ELSE IF Head(s) = "/" THEN <<cur>> \o SplitFrom(Tail(s), "")
    ELSE SplitFrom(Tail(s), cur \o Head(s))

Split(s) == SplitFrom(s, "")

RECURSIVE JoinSegs(_)
JoinSegs(segs) ==
    IF segs = <<>> THEN ""
    ELSE IF Len(segs) = 1 THEN Head(segs)
    ELSE Head(segs) \o "/" \o JoinSegs(Tail(segs))

(***************************************************************************)
(* node:path (POSIX).                                                       *)
(***************************************************************************)
isAbsolute(p) == p # "" /\ Head(p) = "/"

\* The segments of p with "", "." and ".." resolved, as normalizeString does.
RECURSIVE NormSegs(_, _, _)
NormSegs(segs, acc, abs) ==
    IF segs = <<>> THEN acc
    ELSE LET s == Head(segs)
             rest == Tail(segs)
         IN IF s = "" \/ s = "." THEN NormSegs(rest, acc, abs)
            ELSE IF s = ".."
            THEN IF acc # <<>> /\ acc[Len(acc)] # ".."
                 THEN NormSegs(rest, SubSeq(acc, 1, Len(acc) - 1), abs)
                 ELSE IF abs THEN NormSegs(rest, acc, abs)
                 ELSE NormSegs(rest, Append(acc, ".."), abs)
            ELSE NormSegs(rest, Append(acc, s), abs)

\* path.normalize
normalize(p) ==
    IF p = "" THEN "."
    ELSE LET abs == isAbsolute(p)
             body == JoinSegs(NormSegs(Split(p), <<>>, abs))
             trail == endsWith(p, "/")
         IN IF body = "" THEN (IF abs THEN "/" ELSE IF trail THEN "./" ELSE ".")
            ELSE (IF abs THEN "/" ELSE "") \o body \o (IF trail THEN "/" ELSE "")

\* path.join(a, b)
join(a, b) ==
    IF a = "" THEN normalize(b)
    ELSE IF b = "" THEN normalize(a)
    ELSE normalize(a \o "/" \o b)

\* path.resolve(base, p) for an absolute base: absolute, normalized, no
\* trailing separator.
resolve(base, p) ==
    LET full == IF isAbsolute(p) THEN p ELSE base \o "/" \o p
        body == JoinSegs(NormSegs(Split(full), <<>>, TRUE))
    IN "/" \o body

\* The segments of an absolute normalized path.
Segs(p) == NormSegs(Split(p), <<>>, TRUE)

\* path.dirname of an absolute normalized path
dirname(p) ==
    LET s == Segs(p)
    IN IF Len(s) <= 1 THEN "/" ELSE "/" \o JoinSegs(SubSeq(s, 1, Len(s) - 1))

\* path.basename
basename(p) ==
    LET s == NormSegs(Split(p), <<>>, FALSE)
    IN IF s = <<>> THEN "" ELSE s[Len(s)]

Child(dir, name) == IF dir = "/" THEN "/" \o name ELSE dir \o "/" \o name

(***************************************************************************)
(* The process: command line, working directory, home directory.            *)
(***************************************************************************)
\* process.argv.slice(2): the directories the server is started with.
Args == argv
\* process.cwd()
Cwd == "/a/b"
\* os.homedir()
HomeDir == "/o"

normalizePath(p) == toLowerCase(normalize(p))

expandHome(filepath) ==
    IF startsWith(filepath, "~/") \/ filepath = "~"
    THEN join(HomeDir, Tail(filepath))
    ELSE filepath

allowedDirectories ==
    [i \in 1..Len(Args) |-> normalizePath(resolve(Cwd, expandHome(Args[i])))]

trashDir == join(allowedDirectories[1], ".trash")

\* allowedDirectories.some(dir => normalized.startsWith(dir))
isAllowed(normalized) ==
    \E i \in 1..Len(allowedDirectories) :
        startsWith(normalized, allowedDirectories[i])

(***************************************************************************)
(* The filesystem.  A node is a regular file (c its text, z the entries it  *)
(* holds when it is a zip archive), a directory, or a symbolic link (c its  *)
(* absolute target).                                                        *)
(***************************************************************************)
File(c) == [t |-> "file", c |-> c, z |-> <<>>]
Archive(entries) == [t |-> "file", c |-> "PK", z |-> entries]
Dir == [t |-> "dir", c |-> "", z |-> <<>>]
Link(target) == [t |-> "link", c |-> target, z |-> <<>>]

Good(p) == [ok |-> TRUE, path |-> p]
Bad(code) == [ok |-> FALSE, path |-> code]

\* Resolution of the remaining segments `rest` below the resolved directory
\* `cur`, following symbolic links.
RECURSIVE Walk(_, _, _, _)
Walk(f, cur, rest, fuel) ==
    IF rest = <<>> THEN Good(cur)
    ELSE LET nxt == Child(cur, Head(rest))
         IN IF nxt \notin DOMAIN f THEN Bad("ENOENT")
            ELSE IF f[nxt].t = "link"
            THEN IF fuel = 0 THEN Bad("ELOOP")
                 ELSE Walk(f, "/", Segs(f[nxt].c) \o Tail(rest), fuel - 1)
            ELSE IF f[nxt].t = "file" /\ Tail(rest) # <<>> THEN Bad("ENOTDIR")
            ELSE Walk(f, nxt, Tail(rest), fuel)

\* fs.realpath
realpath(f, p) == Walk(f, "/", Segs(p), MaxSymlinks)

\* The node `name` in the resolved directory par.
LocIn(f, par, name) ==
    IF ~par.ok THEN par
    ELSE IF f[par.path].t # "dir" THEN Bad("ENOTDIR")
    ELSE Good(Child(par.path, name))

\* Where a call that does not follow the last component (rename, rm) acts:
\* the resolved parent directory, then the last component as it is.
Loc(f, p) ==
    IF Segs(p) = <<>> THEN Good("/")
    ELSE LocIn(f, realpath(f, dirname(p)), basename(p))

TargetOf(f, real, loc) ==
    IF real.ok THEN real
    ELSE IF ~loc.ok THEN loc
    ELSE IF loc.path \in DOMAIN f THEN Bad(real.path)
    ELSE loc

\* Where a call that opens p for writing acts: the resolved path when it
\* exists, else a new node in the resolved parent directory.
Target(f, p) == TargetOf(f, realpath(f, p), Loc(f, p))

\* p itself or a node below it
Within(p, top) == p = top \/ startsWith(p, Child(top, ""))

Subtree(f, top) == {p \in DOMAIN f : Within(p, top)}

Restrict(f, keep) == [p \in keep |-> f[p]]

Put(f, p, node) == [q \in DOMAIN f \cup {p} |-> IF q = p THEN node ELSE f[q]]

Children(f, dir) == {p \in DOMAIN f : p # dir /\ dirname(p) = dir}

Done(f) == [ok |-> TRUE, fs |-> f, err |-> ""]
Failed(f, code) == [ok |-> FALSE, fs |-> f, err |-> code]

writeAt(f, tgt, node) ==
    IF ~tgt.ok THEN Failed(f, tgt.path)
    ELSE IF tgt.path \in DOMAIN f /\ f[tgt.path].t = "dir" THEN Failed(f, "EISDIR")
    ELSE Done(Put(f, tgt.path, node))

\* fs.writeFile(p, content), and the write of fs.copyFile
writeFile(f, p, node) == writeAt(f, Target(f, p), node)

\* fs.mkdir(p, {recursive: true}): every missing directory on the way.
RECURSIVE MkdirWalk(_, _, _, _)
MkdirWalk(f, cur, rest, fuel) ==
    IF rest = <<>> THEN Done(f)
    ELSE LET nxt == Child(cur, Head(rest))
         IN IF nxt \notin DOMAIN f
            THEN MkdirWalk(Put(f, nxt, Dir), nxt, Tail(rest), fuel)
            ELSE IF f[nxt].t = "link"
            THEN IF fuel = 0 THEN Failed(f, "ELOOP")
                 ELSE MkdirWalk(f, "/", Segs(f[nxt].c) \o Tail(rest), fuel - 1)
            ELSE IF f[nxt].t = "file" THEN Failed(f, "EEXIST")
            ELSE MkdirWalk(f, nxt, Tail(rest), fuel)

mkdir(f, p) == MkdirWalk(f, "/", Segs(p), MaxSymlinks)

\* A move that leaves the source where it was.
moveTreeCopied(f, src, dst, moved) == Put(f, dst, f[src])

\* The node src and all below it moved to dst, whatever dst held replaced.
moveTree(f, src, dst, moved) ==
    [q \in ((DOMAIN f \ moved) \ {dst})
           \cup {dst \o SubSeq(p, Len(src) + 1, Len(p)) : p \in moved} |->
        IF q = dst THEN f[src]
        ELSE IF q \in DOMAIN f /\ q \notin moved THEN f[q]
        ELSE f[CHOOSE p \in moved : dst \o SubSeq(p, Len(src) + 1, Len(p)) = q]]

\* rename(2) of the node src to dst: an existing destination file (or, for
\* a directory, empty directory) is replaced.
renameNode(f, src, dst) ==
    IF src \notin DOMAIN f THEN Failed(f, "ENOENT")
    ELSE IF src = dst THEN Done(f)
    ELSE IF Within(dst, src) THEN Failed(f, "EINVAL")
    ELSE IF dst \notin DOMAIN f THEN Done(moveTree(f, src, dst, Subtree(f, src)))
    ELSE IF f[src].t = "dir" /\ f[dst].t # "dir" THEN Failed(f, "ENOTDIR")
    ELSE IF f[src].t # "dir" /\ f[dst].t = "dir" THEN Failed(f, "EISDIR")
    ELSE IF f[dst].t = "dir" /\ Children(f, dst) # {} THEN Failed(f, "ENOTEMPTY")
    ELSE Done(moveTree(f, src, dst, Subtree(f, src)))

renameAt(f, la, lb) ==
    IF ~la.ok THEN Failed(f, la.path)
    ELSE IF la.path \notin DOMAIN f THEN Failed(f, "ENOENT")
    ELSE IF ~lb.ok THEN Failed(f, lb.path)
    ELSE renameNode(f, la.path, lb.path)

\* fs.rename(a, b)
rename(f, a, b) == renameAt(f, Loc(f, a), Loc(f, b))

copyFrom(f, src, b) ==
    IF ~src.ok THEN Failed(f, src.path)
    ELSE IF f[src.path].t # "file" THEN Failed(f, "EISDIR")
    ELSE writeFile(f, b, f[src.path])

\* fs.copyFile(a, b): no COPYFILE_EXCL, so an existing destination is
\* overwritten.
copyFile(f, a, b) == copyFrom(f, realpath(f, a), b)

\* An fs.rm that settled without removing anything.
rmAtKept(f, loc) == Done(f)

rmAt(f, loc) ==
    IF ~loc.ok \/ loc.path \notin DOMAIN f THEN Done(f)
    ELSE Done(Restrict(f, DOMAIN f \ Subtree(f, loc.path)))

\* fs.rm(p, {force: true, recursive: true})
rm(f, p) == rmAt(f, Loc(f, p))

readdirAt(f, real) ==
    IF ~real.ok THEN [ok |-> FALSE, names |-> {}, err |-> real.path]
    ELSE IF f[real.path].t # "dir" THEN [ok |-> FALSE, names |-> {}, err |-> "ENOTDIR"]
    ELSE [ok |-> TRUE, names |-> {basename(q) : q \in Children(f, real.path)}, err |-> ""]

\* fs.readdir(p): the names in the directory
readdir(f, p) == readdirAt(f, realpath(f, p))

readFileAt(f, real) ==
    IF ~real.ok THEN [ok |-> FALSE, text |-> real.path]
    ELSE IF f[real.path].t # "file" THEN [ok |-> FALSE, text |-> "EISDIR"]
    ELSE [ok |-> TRUE, text |-> f[real.path].c]

\* fs.readFile(p, "utf-8")
readFile(f, p) == readFileAt(f, realpath(f, p))

statAt(f, real) ==
    IF ~real.ok THEN [ok |-> FALSE, text |-> real.path]
    ELSE [ok |-> TRUE, text |-> f[real.path].t]

\* fs.stat(p)
stat(f, p) == statAt(f, realpath(f, p))

\* Whether the directory entry at loc is a directory (Dirent.isDirectory:
\* a link is not).
isDirectoryAt(f, loc) == loc.ok /\ loc.path \in DOMAIN f /\ f[loc.path].t = "dir"

(***************************************************************************)
(* validatePath, from one await to the next.                                *)
(***************************************************************************)
\* What a validatePath call ended with: kind is "ok" (path is the returned
\* path) or the error thrown; real and preal are what fs.realpath gave for
\* the path and for its parent directory ("" when it failed or was not
\* asked).
Outcome(kind, cand, abs, path, real, preal) ==
    [kind |-> kind, cand |-> cand, abs |-> abs, path |-> path,
     real |-> real, preal |-> preal]

\* lines 61-64
absoluteOf(requestedPath) == resolve(Cwd, expandHome(requestedPath))

\* lines 66-72
lexicallyAllowed(absolute) == isAllowed(normalizePath(absolute))

\* lines 77-82, and the catch of line 83: a throw inside the try block, the
\* access-denied one of line 80 included, lands in the catch.
realChecked(absolute, real) ==
    IF real.ok /\ isAllowed(normalizePath(real.path))
    THEN [caught |-> FALSE, path |-> real.path, real |-> real.path]
    ELSE [caught |-> TRUE, path |-> absolute,
          real |-> IF real.ok THEN real.path ELSE ""]

\* lines 75-83, once fs.realpath(absolute) has settled
validateReal(f, absolute) == realChecked(absolute, realpath(f, absolute))

\* lines 88-95: the inner catch turns every throw, the access-denied one of
\* line 91 included, into "Parent directory does not exist".
parentChecked(parent) ==
    IF parent.ok /\ isAllowed(normalizePath(parent.path))
    THEN [kind |-> "ok", preal |-> parent.path]
    ELSE [kind |-> "ParentMissing",
          preal |-> IF parent.ok THEN parent.path ELSE ""]

\* lines 84-96, once fs.realpath(parentDir) has settled
validateParent(f, absolute) == parentChecked(realpath(f, dirname(absolute)))

\* validatePath on one snapshot of the filesystem (searchFiles awaits it for
\* every entry it meets and only asks whether it threw).
validatedAt(f, absolute) ==
    /\ lexicallyAllowed(absolute)
    /\ \/ ~validateReal(f, absolute).caught
       \/ validateParent(f, absolute).kind = "ok"

validatePathOk(f, requestedPath) == validatedAt(f, absoluteOf(requestedPath))

(***************************************************************************)
(* Requests.                                                                *)
(***************************************************************************)
Slots == {1, 2}

NoResult == [ok |-> TRUE, text |-> ""]

\* A free slot.  Of a request in flight: tool, paths and opt are the call's
\* arguments; pc is the await the handler is suspended at; cand, abs and
\* real belong to the validatePath call in progress; valid are the paths
\* validatePath returned so far; ts is the clock reading of the handler;
\* pending are the entries empty_trash still has an fs.rm in flight for;
\* units are the per-path tasks of read_multiple_files.
\* History, kept for the properties: auth (the outcome of every
\* validatePath call of the handler), prims (every fs call made, with the
\* paths passed), touched (the nodes the request created, changed or
\* removed), added (entries that appeared in the trash while the purge was
\* running) and left (the trash entries at the return of empty_trash).
Idle ==
    [pc |-> "idle", tool |-> "", paths |-> <<>>, opt |-> "",
     cand |-> "", abs |-> "", real |-> "", valid |-> <<>>, ts |-> 0,
     pending |-> {}, units |-> <<>>, res |-> NoResult,
     auth |-> <<>>, prims |-> <<>>, touched |-> {}, added |-> {}, left |-> {}]

Prim(op, paths) == [op |-> op, paths |-> paths]

\* The paths the handler of `tool` hands to validatePath, in order.
\* restore_file (lines 512-513) validates its one argument twice: joined to
\* the trash directory, and as it is.
Operands(tool, paths) ==
    IF tool = "restore_file" THEN <<join(trashDir, paths[1]), paths[1]>>
    ELSE IF tool \in {"empty_trash", "list_trash", "read_multiple_files"} THEN <<>>
    ELSE paths

\* return {content}, or the catch of lines 577-583: isError
Finish(rq, ok, text) ==
    [rq EXCEPT !.pc = "done", !.res = [ok |-> ok, text |-> text]]

\* A handler that went on whatever validatePath ended with.
AuthorizedAlways(o) == TRUE

\* Whether the handler goes on after a validatePath call: it returned.
Authorized(o) == o.kind = "ok"

RECURSIVE Settle(_, _)

ValidateAt(rq, requestedPath, absolute) ==
    IF lexicallyAllowed(absolute)
    THEN [rq EXCEPT !.pc = "real", !.cand = requestedPath,
                    !.abs = absolute, !.real = ""]
    ELSE Settle(rq, Outcome("AccessDenied", requestedPath, absolute,
                            absolute, "", ""))

\* A call of validatePath, up to its first await.
Validate(rq, requestedPath) ==
    ValidateAt(rq, requestedPath, absoluteOf(requestedPath))

\* The handler with the paths validated so far: the next path is validated,
\* or the filesystem call of the tool is made (pc "io").
Proceed(rq, ops) ==
    IF Len(rq.valid) < Len(ops)
    THEN Validate(rq, ops[Len(rq.valid) + 1])
    ELSE [rq EXCEPT !.pc = "io"]

\* The handler resumed after validatePath settled with o: a throw leaves
\* through the catch of lines 577-583.
Settle(rq, o) ==
    IF ~Authorized(o)
    THEN Finish([rq EXCEPT !.auth = Append(@, o)], FALSE, o.kind)
    ELSE Proceed([rq EXCEPT !.auth = Append(@, o), !.valid = Append(@, o.path)],
                 Operands(rq.tool, rq.paths))

\* The handlers that read the clock (new Date()) before their fs call.
ReadsClock(tool) == tool \in {"backup_file", "move_to_trash"}

\* new Date().toISOString(), the date and all but one digit left out
toISOString(t) == "T0:" \o ToString(t) \o ".0Z"

\* lines 228, 240, 486
timestampOf(t) == replaceColonDot(toISOString(t))

TrashNames(f) == readdir(f, trashDir).names

\* The nodes that differ between f and g.
Changed(f, g) ==
    {p \in DOMAIN f \cup DOMAIN g :
        p \notin DOMAIN f \/ p \notin DOMAIN g \/ f[p] # g[p]}

\* What a purge in progress sees of another request's step.
Observe(rq, g) ==
    IF rq.pc = "rm"
    THEN [rq EXCEPT !.added = @ \cup (TrashNames(g) \ TrashNames(fs))]
    ELSE rq

\* One step of request r: it becomes rq, the filesystem g.
Step(r, rq, g) ==
    /\ fs' = g
    /\ argv' = argv
    /\ req' = [q \in Slots |->
                 IF q = r THEN [rq EXCEPT !.touched = @ \cup Changed(fs, g)]
                 ELSE Observe(req[q], g)]

\* Request r goes on as rq.  A handler that reaches its fs call reads the
\* clock first (lines 228, 486): a reading not before the last one.
Enter(r, rq) ==
    IF rq.pc = "io" /\ ReadsClock(rq.tool)
    THEN \E t \in now..MaxClock :
            /\ now' = t
            /\ Step(r, [rq EXCEPT !.ts = t], fs)
    ELSE /\ now' = now
         /\ Step(r, rq, fs)

\* Request r resumes after validatePath settled with o.
Resume(r, o) == Enter(r, Settle(req[r], o))

TargetSettled(r, rq, v) ==
    IF v.caught
    THEN /\ Step(r, [rq EXCEPT !.pc = "parent", !.real = v.real], fs)
         /\ now' = now
    ELSE Resume(r, Outcome("ok", rq.cand, rq.abs, v.path, v.real, ""))

\* fs.realpath(absolute) settles (line 76).
RealpathTarget(r) ==
    /\ req[r].pc = "real"
    /\ TargetSettled(r, req[r], validateReal(fs, req[r].abs))
    /\ UNCHANGED <<started, trashLog, backupLog, orphans>>

ParentSettled(r, rq, v) ==
    Resume(r, Outcome(v.kind, rq.cand, rq.abs, rq.abs, rq.real, v.preal))

\* fs.realpath(parentDir) settles (line 87).
RealpathParent(r) ==
    /\ req[r].pc = "parent"
    /\ ParentSettled(r, req[r], validateParent(fs, req[r].abs))
    /\ UNCHANGED <<started, trashLog, backupLog, orphans>>

\* The response is sent; the slot is free again.
Respond(r) ==
    /\ req[r].pc = "done"
    /\ Step(r, Idle, fs)
    /\ UNCHANGED <<now, started, trashLog, backupLog, orphans>>

(***************************************************************************)
(* adm-zip, as the handlers use it (line 15, lines 526-528 and 543-544).    *)
(* All of it is synchronous: an archive is written or extracted in one      *)
(* step.                                                                    *)
(***************************************************************************)
Entry(n, c) == [n |-> n, c |-> c]

RECURSIVE SeqOf(_)
SeqOf(S) ==
    IF S = {} THEN <<>>
    ELSE LET x == CHOOSE y \in S : TRUE IN <<x>> \o SeqOf(S \ {x})

RECURSIVE findFiles(_, _, _, _)

\* The files Utils.findFiles adds for the directory entry p, whose resolved
\* path is real: links are followed (statSync).
filesAt(f, p, name, real, fuel) ==
    IF ~real.ok THEN {}
    ELSE IF f[real.path].t = "file" THEN {Entry(name, f[real.path].c)}
    ELSE IF f[p].t # "link" THEN findFiles(f, real.path, name, fuel)
    ELSE IF fuel = 0 THEN {}
    ELSE findFiles(f, real.path, name, fuel - 1)

\* Utils.findFiles below dir, the entry names relative to rel.
findFiles(f, dir, rel, fuel) ==
    UNION {filesAt(f, p, IF rel = "" THEN basename(p) ELSE rel \o "/" \o basename(p),
                   realpath(f, p), fuel)
           : p \in Children(f, dir)}

writeMade(made, p, node) ==
    IF ~made.ok THEN made ELSE writeFile(made.fs, p, node)

\* Utils.writeFileTo(path, content, true): the folder is made when missing.
writeFileTo(f, p, node) == writeMade(mkdir(f, dirname(p)), p, node)

zipFolderAt(f, real, destination) ==
    IF ~real.ok THEN Failed(f, real.path)
    ELSE IF f[real.path].t # "dir" THEN Failed(f, "ENOTDIR")
    ELSE writeFileTo(f, destination,
                     Archive(SeqOf(findFiles(f, real.path, "", MaxSymlinks))))

\* zip.addLocalFolder(source); zip.writeZip(destination)
zipFolder(f, source, destination) ==
    zipFolderAt(f, realpath(f, source), destination)

\* canonical(entryName)
canonical(name) == join(".", normalize("/" \o name))

RECURSIVE sanitizeFrom(_, _, _)

sanitizeStep(prefix, parts, name, p) ==
    IF startsWith(p, prefix) THEN p ELSE sanitizeFrom(prefix, Tail(parts), name)

\* sanitize(prefix, name): the longest tail of name that stays, as a string,
\* under prefix.
sanitizeFrom(prefix, parts, name) ==
    IF parts = <<>> THEN normalize(join(prefix, basename(name)))
    ELSE sanitizeStep(prefix, parts, name, normalize(join(prefix, JoinSegs(parts))))

sanitize(prefix, name) == sanitizeFrom(resolve(Cwd, prefix), Split(name), name)

\* Where extractAllTo writes the entry called name.
entryPath(targetPath, name) == sanitize(targetPath, canonical(name))

RECURSIVE extractAll(_, _, _)

extractNext(w, entries, targetPath) ==
    IF ~w.ok THEN w ELSE extractAll(w.fs, entries, targetPath)

\* zip.extractAllTo(targetPath, true): entry after entry; a throw leaves the
\* entries already written.
extractAll(f, entries, targetPath) ==
    IF entries = <<>> THEN Done(f)
    ELSE extractNext(writeFileTo(f, entryPath(targetPath, Head(entries).n),
                                 File(Head(entries).c)),
                     Tail(entries), targetPath)

unzipAt(f, real, destination) ==
    IF ~real.ok THEN Failed(f, real.path)
    ELSE IF f[real.path].t # "file" \/ f[real.path].c # "PK"
    THEN Failed(f, "InvalidZip")
    ELSE extractAll(f, f[real.path].z, destination)

\* new AdmZip(source).extractAllTo(destination, true)
unzipTo(f, source, destination) == unzipAt(f, realpath(f, source), destination)

(***************************************************************************)
(* searchFiles (lines 199-224).                                             *)
(***************************************************************************)
includes(s, sub) ==
    \E i \in 1..(Len(s) + 1) :
        i + Len(sub) <= Len(s) + 1 /\ SubSeq(s, i, i + Len(sub) - 1) = sub

\* The entries of currentPath that validatePath accepts.
searchEntries(f, currentPath) ==
    {n \in readdir(f, currentPath).names : validatePathOk(f, join(currentPath, n))}

\* The directories search() reads below (and with) currentPath.
RECURSIVE searchDirs(_, _)
searchDirs(f, currentPath) ==
    {currentPath} \cup
    UNION {searchDirs(f, join(currentPath, n)) :
             n \in {m \in searchEntries(f, currentPath) :
                      isDirectoryAt(f, Loc(f, join(currentPath, m)))}}

searchFiles(f, rootPath, pattern) ==
    UNION {{join(d, n) : n \in {m \in searchEntries(f, d) :
                                  includes(toLowerCase(m), toLowerCase(pattern))}}
           : d \in searchDirs(f, rootPath)}

(***************************************************************************)
(* The tool handlers (lines 352-584), each from where validatePath has      *)
(* returned for all its paths to its return.                                *)
(***************************************************************************)
AtIo(r, tool) == req[r].pc = "io" /\ req[r].tool = tool

\* The fs call op(paths) of request r settles: the handler returns or
\* throws, the filesystem is g.
Return(r, rq, op, paths, ok, text, g) ==
    /\ Step(r, Finish([rq EXCEPT !.prims = Append(@, Prim(op, paths))], ok, text), g)
    /\ now' = now

\* ... a call that changes the filesystem, with result w
Effect(r, rq, op, paths, w, text) ==
    Return(r, rq, op, paths, w.ok, IF w.ok THEN text ELSE w.err, w.fs)

\* ... a call that reads, with result v
Answer(r, rq, op, paths, v) == Return(r, rq, op, paths, v.ok, v.text, fs)

\* lines 413-415 and 557-559
RECURSIVE formatted(_, _, _)
formatted(f, dir, names) ==
    IF names = <<>> THEN ""
    ELSE (IF isDirectoryAt(f, Loc(f, join(dir, Head(names)))) THEN "[DIR] " ELSE "[FILE] ")
         \o Head(names)
         \o (IF Tail(names) = <<>> THEN "" ELSE "\n" \o formatted(f, dir, Tail(names)))

listing(f, dir, d, whenEmpty) ==
    IF ~d.ok THEN [ok |-> FALSE, text |-> d.err]
    ELSE IF d.names = {} THEN [ok |-> TRUE, text |-> whenEmpty]
    ELSE [ok |-> TRUE, text |-> formatted(f, dir, SeqOf(d.names))]

\* results.join("\n")
RECURSIVE joinLines(_, _)
joinLines(lines, sep) ==
    IF lines = <<>> THEN ""
    ELSE IF Tail(lines) = <<>> THEN Head(lines)
    ELSE Head(lines) \o sep \o joinLines(Tail(lines), sep)

\* lines 362-364
ReadFile(r) ==
    /\ AtIo(r, "read_file")
    /\ Answer(r, req[r], "readFile", req[r].valid, readFile(fs, req[r].valid[1]))
    /\ UNCHANGED <<started, trashLog, backupLog, orphans>>

\* lines 391-393
WriteFile(r) ==
    /\ AtIo(r, "write_file")
    /\ Effect(r, req[r], "writeFile", req[r].valid,
              writeFile(fs, req[r].valid[1], File(req[r].opt)), "Successfully wrote")
    /\ UNCHANGED <<started, trashLog, backupLog, orphans>>

\* lines 401-403
CreateDirectory(r) ==
    /\ AtIo(r, "create_directory")
    /\ Effect(r, req[r], "mkdir", req[r].valid,
              mkdir(fs, req[r].valid[1]), "Successfully created directory")
    /\ UNCHANGED <<started, trashLog, backupLog, orphans>>

\* lines 411-416
ListDirectory(r) ==
    /\ AtIo(r, "list_directory")
    /\ Answer(r, req[r], "readdir", req[r].valid,
              listing(fs, req[r].valid[1], readdir(fs, req[r].valid[1]), ""))
    /\ UNCHANGED <<started, trashLog, backupLog, orphans>>

\* lines 424-427
MoveFile(r) ==
    /\ AtIo(r, "move_file")
    /\ Effect(r, req[r], "rename", req[r].valid,
              rename(fs, req[r].valid[1], req[r].valid[2]), "Successfully moved")
    /\ UNCHANGED <<started, trashLog, backupLog, orphans>>

found(d, results) ==
    IF ~d.ok THEN [ok |-> FALSE, text |-> d.err]
    ELSE IF results = {} THEN [ok |-> TRUE, text |-> "No matches found"]
    ELSE [ok |-> TRUE, text |-> joinLines(SeqOf(results), "\n")]

\* lines 435-437: the readdir of the root throws to the handler, any other
\* is caught by the loop (lines 216-218).
SearchFiles(r) ==
    /\ AtIo(r, "search_files")
    /\ Answer(r, req[r], "readdir", SeqOf(searchDirs(fs, req[r].valid[1])),
              found(readdir(fs, req[r].valid[1]),
                    searchFiles(fs, req[r].valid[1], req[r].opt)))
    /\ UNCHANGED <<started, trashLog, backupLog, orphans>>

\* lines 445-451, getFileStats (lines 186-197)
GetFileInfo(r) ==
    /\ AtIo(r, "get_file_info")
    /\ Answer(r, req[r], "stat", req[r].valid, stat(fs, req[r].valid[1]))
    /\ UNCHANGED <<started, trashLog, backupLog, orphans>>

\* lines 459-462
CopyFile(r) ==
    /\ AtIo(r, "copy_file")
    /\ Effect(r, req[r], "copyFile", req[r].valid,
              copyFile(fs, req[r].valid[1], req[r].valid[2]), "Successfully copied")
    /\ UNCHANGED <<started, trashLog, backupLog, orphans>>

\* A backup name without the timestamp.
backupPathFlat(source, destinationDir, timestamp) ==
    join(destinationDir, basename(source) \o ".backup")

\* lines 229-233
backupPathOf(source, destinationDir, timestamp) ==
    join(destinationDir, basename(source) \o "." \o timestamp \o ".backup")

Backup(source, destinationDir, timestamp) ==
    [path |-> backupPathOf(source, destinationDir, timestamp),
     base |-> basename(source), dir |-> destinationDir, ts |-> timestamp]

BackupSettled(r, rq, b, w) ==
    /\ Effect(r, rq, "copyFile", <<rq.valid[1], b.path>>, w,
              "Successfully created backup at " \o b.path)
    /\ backupLog' = IF w.ok THEN backupLog \cup {b} ELSE backupLog

BackupTo(r, rq, b) == BackupSettled(r, rq, b, copyFile(fs, rq.valid[1], b.path))

\* lines 470-476, backupFile (lines 227-236)
BackupFile(r) ==
    /\ AtIo(r, "backup_file")
    /\ BackupTo(r, req[r], Backup(req[r].valid[1], req[r].valid[2], timestampOf(req[r].ts)))
    /\ UNCHANGED <<started, trashLog, orphans>>

\* lines 485-487
trashPathOf(filePath, timestamp) ==
    join(trashDir, basename(filePath) \o "." \o timestamp)

TrashSettled(r, rq, entry, loc, w) ==
    /\ Effect(r, rq, "rename", <<rq.valid[1], entry>>, w, "Moved to trash at " \o entry)
    /\ trashLog' = IF w.ok
                   THEN trashLog \cup {[entry |-> entry, orig |-> rq.valid[1],
                                        node |-> fs[loc.path]]}
                   ELSE trashLog

TrashTo(r, rq, entry) ==
    TrashSettled(r, rq, entry, Loc(fs, rq.valid[1]), rename(fs, rq.valid[1], entry))

\* lines 484-489
MoveToTrash(r) ==
    /\ AtIo(r, "move_to_trash")
    /\ TrashTo(r, req[r], trashPathOf(req[r].valid[1], timestampOf(req[r].ts)))
    /\ UNCHANGED <<started, backupLog, orphans>>

\* A gate that only an explicit false closes.
ConfirmNotRefused(confirm) == confirm # "false"

\* line 497: !parsed.data.confirm
ConfirmGiven(confirm) == confirm = "true"

ConfirmMessage == "Please confirm emptying trash by setting confirm: true"

Listed(r, rq, d) ==
    IF d.ok
    THEN Step(r, [rq EXCEPT !.pc = "rm", !.pending = d.names,
                            !.prims = Append(@, Prim("readdir", <<trashDir>>))], fs)
    ELSE Step(r, Finish([rq EXCEPT !.prims = Append(@, Prim("readdir", <<trashDir>>))],
                        FALSE, d.err), fs)

\* line 500: fs.readdir(trashDir) settles; line 501 starts one fs.rm for
\* every entry it listed.
EmptyTrashReaddir(r) ==
    /\ req[r].pc = "readdir"
    /\ Listed(r, req[r], readdir(fs, trashDir))
    /\ UNCHANGED <<now, started, trashLog, backupLog, orphans>>

Removed(r, rq, entry, w) ==
    Step(r, [rq EXCEPT !.pending = @ \ {entry},
                       !.prims = Append(@, Prim("rm", <<join(trashDir, entry)>>))], w.fs)

\* line 502: one of the fs.rm calls in flight settles.
EmptyTrashRm(r) ==
    /\ req[r].pc = "rm"
    /\ \E entry \in req[r].pending :
          Removed(r, req[r], entry, rm(fs, join(trashDir, entry)))
    /\ UNCHANGED <<now, started, trashLog, backupLog, orphans>>

\* An fs.rm that rejects: force only hides a missing path, any other error
\* of the storage (EACCES, EPERM, EBUSY) is thrown.
rmRejected(f) == Failed(f, "EACCES")

\* Promise.all rejects with the first rejection (line 501): the handler
\* throws to the catch of lines 577-583 while the other fs.rm calls are
\* still in flight; nothing awaits them any more.
Rejected(r, rq, entry, w) ==
    /\ Step(r, Finish([rq EXCEPT !.pending = @ \ {entry},
                                 !.prims = Append(@, Prim("rm", <<join(trashDir, entry)>>))],
                      FALSE, w.err), w.fs)
    /\ orphans' = orphans \cup {join(trashDir, e) : e \in rq.pending \ {entry}}

\* line 502: one of the fs.rm calls in flight rejects.
EmptyTrashRmRejects(r) ==
    /\ req[r].pc = "rm"
    /\ \E entry \in req[r].pending : Rejected(r, req[r], entry, rmRejected(fs))
    /\ UNCHANGED <<now, started, trashLog, backupLog>>

OrphanSettled(p, w) ==
    /\ fs' = w.fs
    /\ argv' = argv
    /\ req' = [q \in Slots |-> Observe(req[q], w.fs)]
    /\ orphans' = orphans \ {p}

\* line 502: an fs.rm whose handler has returned settles, removing the
\* entry or rejecting unobserved.
OrphanRm ==
    /\ \E p \in orphans :
          \/ OrphanSettled(p, rm(fs, p))
          \/ OrphanSettled(p, rmRejected(fs))
    /\ UNCHANGED <<now, started, trashLog, backupLog>>

\* lines 501-504: Promise.all settles when every fs.rm has; the handler
\* returns.
EmptyTrashReturn(r) ==
    /\ req[r].pc = "rm"
    /\ req[r].pending = {}
    /\ Step(r, Finish([req[r] EXCEPT !.left = TrashNames(fs)], TRUE,
                      "Successfully emptied trash directory"), fs)
    /\ UNCHANGED <<now, started, trashLog, backupLog, orphans>>

\* lines 512-515
RestoreFile(r) ==
    /\ AtIo(r, "restore_file")
    /\ Effect(r, req[r], "rename", req[r].valid,
              rename(fs, req[r].valid[1], req[r].valid[2]), "Successfully restored")
    /\ UNCHANGED <<started, trashLog, backupLog, orphans>>

\* lines 524-529
ZipDirectory(r) ==
    /\ AtIo(r, "zip_directory")
    /\ Effect(r, req[r], "writeZip", req[r].valid,
              zipFolder(fs, req[r].valid[1], req[r].valid[2]), "Successfully compressed")
    /\ UNCHANGED <<started, trashLog, backupLog, orphans>>

\* lines 541-545
UnzipFile(r) ==
    /\ AtIo(r, "unzip_file")
    /\ Effect(r, req[r], "extractAllTo", req[r].valid,
              unzipTo(fs, req[r].valid[1], req[r].valid[2]), "Successfully extracted")
    /\ UNCHANGED <<started, trashLog, backupLog, orphans>>

\* lines 556-560
ListTrash(r) ==
    /\ AtIo(r, "list_trash")
    /\ Answer(r, req[r], "readdir", <<trashDir>>,
              listing(fs, trashDir, readdir(fs, trashDir), "Trash is empty"))
    /\ UNCHANGED <<started, trashLog, backupLog, orphans>>

\* lines 568-571
RestoreFromBackup(r) ==
    /\ AtIo(r, "restore_from_backup")
    /\ Effect(r, req[r], "copyFile", req[r].valid,
              copyFile(fs, req[r].valid[1], req[r].valid[2]), "Successfully restored backup")
    /\ UNCHANGED <<started, trashLog, backupLog, orphans>>

(***************************************************************************)
(* read_multiple_files (lines 367-384): one task for every path, each from  *)
(* one await to the next, joined by Promise.all.                            *)
(***************************************************************************)
UnitError(filePath, message) == filePath \o ": Error - " \o message

\* line 375, up to the first await of validatePath
UnitStart(filePath, absolute) ==
    IF lexicallyAllowed(absolute)
    THEN [cand |-> filePath, abs |-> absolute, pc |-> "real", real |-> "",
          valid |-> "", text |-> ""]
    ELSE [cand |-> filePath, abs |-> absolute, pc |-> "done", real |-> "",
          valid |-> "", text |-> UnitError(filePath, "AccessDenied")]

RECURSIVE DeniedAtStart(_)
DeniedAtStart(paths) ==
    IF paths = <<>> THEN <<>>
    ELSE (IF lexicallyAllowed(absoluteOf(Head(paths))) THEN <<>>
          ELSE <<Outcome("AccessDenied", Head(paths), absoluteOf(Head(paths)),
                         absoluteOf(Head(paths)), "", "")>>)
         \o DeniedAtStart(Tail(paths))

\* line 373: the map starts every task.
Fan(rq) ==
    [rq EXCEPT !.pc = "fan",
               !.units = [k \in 1..Len(rq.paths) |->
                            UnitStart(rq.paths[k], absoluteOf(rq.paths[k]))],
               !.auth = DeniedAtStart(rq.paths)]

\* validatePath of task k settled with o: line 376, or the catch of line 378.
UnitSettle(rq, k, o) ==
    IF Authorized(o)
    THEN [rq EXCEPT !.auth = Append(@, o), !.units[k].pc = "read",
                    !.units[k].valid = o.path]
    ELSE [rq EXCEPT !.auth = Append(@, o), !.units[k].pc = "done",
                    !.units[k].text = UnitError(o.cand, o.kind)]

UnitAt(r, k, pc) ==
    /\ req[r].pc = "fan"
    /\ k \in DOMAIN req[r].units
    /\ req[r].units[k].pc = pc

UnitTarget(r, rq, k, v) ==
    IF v.caught
    THEN Step(r, [rq EXCEPT !.units[k].pc = "parent", !.units[k].real = v.real], fs)
    ELSE Step(r, UnitSettle(rq, k, Outcome("ok", rq.units[k].cand, rq.units[k].abs,
                                           v.path, v.real, "")), fs)

\* fs.realpath(absolute) of a task settles.
UnitRealpath(r) ==
    /\ \E k \in DOMAIN req[r].units :
          /\ UnitAt(r, k, "real")
          /\ UnitTarget(r, req[r], k, validateReal(fs, req[r].units[k].abs))
    /\ UNCHANGED <<now, started, trashLog, backupLog, orphans>>

UnitParentSettled(r, rq, k, v) ==
    Step(r, UnitSettle(rq, k, Outcome(v.kind, rq.units[k].cand, rq.units[k].abs,
                                      rq.units[k].abs, rq.units[k].real, v.preal)), fs)

\* fs.realpath(parentDir) of a task settles.
UnitParent(r) ==
    /\ \E k \in DOMAIN req[r].units :
          /\ UnitAt(r, k, "parent")
          /\ UnitParentSettled(r, req[r], k, validateParent(fs, req[r].units[k].abs))
    /\ UNCHANGED <<now, started, trashLog, backupLog, orphans>>

UnitReadSettled(r, rq, k, v) ==
    Step(r, [rq EXCEPT !.units[k].pc = "done",
                       !.units[k].text =
                           IF v.ok THEN rq.units[k].cand \o ":\n" \o v.text \o "\n"
                           ELSE UnitError(rq.units[k].cand, v.text),
                       !.prims = Append(@, Prim("readFile", <<rq.units[k].valid>>))], fs)

\* fs.readFile of a task settles (lines 376-379).
UnitRead(r) ==
    /\ \E k \in DOMAIN req[r].units :
          /\ UnitAt(r, k, "read")
          /\ UnitReadSettled(r, req[r], k, readFile(fs, req[r].units[k].valid))
    /\ UNCHANGED <<now, started, trashLog, backupLog, orphans>>

\* Promise.all settles (lines 372, 383).
ReadMultipleJoin(r) ==
    /\ req[r].pc = "fan"
    /\ \A k \in DOMAIN req[r].units : req[r].units[k].pc = "done"
    /\ Step(r, Finish(req[r], TRUE,
                      joinLines([k \in DOMAIN req[r].units |-> req[r].units[k].text],
                                "\n---\n")), fs)
    /\ UNCHANGED <<now, started, trashLog, backupLog, orphans>>

(***************************************************************************)
(* The calls a client makes.                                                *)
(***************************************************************************)
Call(tool, paths, opt) == [tool |-> tool, paths |-> paths, opt |-> opt]

ReadPaths ==
    {"/a/b/f", "/a/b/n", "/a/bc/x", "/a/b/../bc/x", "/a/b/l", "/a/b/l/s",
     "/a/b/l/n", "/a/b/m/n", "/o/s", "~/s", "d/f"}

FixedCalls ==
    {Call("read_file", <<p>>, "") : p \in ReadPaths}
    \cup {Call("read_multiple_files", ps, "") :
            ps \in {<<"/a/b/f", "/o/s">>, <<"/a/b/n", "/a/b/f">>}}
    \cup {Call("write_file", <<p>>, "W") : p \in {"/a/b/n", "/a/b/d/f"}}
    \cup {Call("create_directory", <<"/a/b/m">>, "")}
    \cup {Call("list_directory", <<p>>, "") : p \in {"/a/b/d", "/a/b/l"}}
    \cup {Call("move_file", <<"/a/b/f", p>>, "") : p \in {"/a/b/n", "/a/b/d/f", "/o/s"}}
    \cup {Call("search_files", <<"/a/b">>, "F")}
    \cup {Call("get_file_info", <<"/a/b/f">>, "")}
    \cup {Call("copy_file", <<"/a/b/f", p>>, "") : p \in {"/a/b/n", "/a/b/d/f", "/a/bc/x"}}
    \cup {Call("backup_file", ps, "") :
            ps \in {<<"/a/b/f", "/a/b/d">>, <<"/a/b/d/f", "/a/b/d">>, <<"/a/b/f", "/o">>}}
    \cup {Call("move_to_trash", <<p>>, "") : p \in {"/a/b/f", "/a/b/d/f"}}
    \cup {Call("empty_trash", <<>>, c) : c \in {"true", "false", "absent"}}
    \cup {Call("zip_directory", <<"/a/b/d", "/a/b/n">>, "")}
    \cup {Call("unzip_file", <<"/a/b/z", p>>, "") : p \in {"/a/b", "/a/b/d"}}
    \cup {Call("list_trash", <<>>, "")}

\* Calls that name what earlier calls made: a trash entry or the path it
\* was moved from, a backup.
ReplyCalls ==
    {Call("restore_file", <<p>>, "") :
        p \in TrashNames(fs) \cup {t.orig : t \in trashLog}}
    \cup {Call("restore_from_backup", <<b.path, p>>, "") :
            b \in backupLog, p \in {"/a/b/d/f", "/a/b/n"}}

TrashCalls ==
    {Call("move_to_trash", <<p>>, "") : p \in {"/a/b/f", "/a/b/d/f"}}
    \cup {Call("empty_trash", <<>>, "true")}

\* The handler up to its first await.
BeginAs(rq) ==
    IF rq.tool = "empty_trash"
    THEN IF ConfirmGiven(rq.opt) THEN [rq EXCEPT !.pc = "readdir"]
         ELSE Finish(rq, TRUE, ConfirmMessage)
    ELSE IF rq.tool = "read_multiple_files" THEN Fan(rq)
    ELSE Proceed(rq, Operands(rq.tool, rq.paths))

Begin(c) ==
    BeginAs([Idle EXCEPT !.tool = c.tool, !.paths = c.paths, !.opt = c.opt])

\* A request arrives (line 352).
Accept(r, calls) ==
    /\ req[r].pc = "idle"
    /\ started < MaxOps
    /\ started' = started + 1
    /\ \E c \in calls : Enter(r, Begin(c))
    /\ UNCHANGED <<trashLog, backupLog, orphans>>

CallTool(r) == Accept(r, FixedCalls \cup ReplyCalls)

CallTrashTool(r) == Accept(r, TrashCalls)

(***************************************************************************)
(* The specifications.                                                      *)
(***************************************************************************)
\* The disk the server is started on: the root /a/b with a file, a
\* directory, a link that leads out of the root and an archive; next to it
\* /a/bc, and /o (the home directory).
Disk ==
    [p \in {"/", "/a", "/a/b", "/a/b/f", "/a/b/d", "/a/b/d/f", "/a/b/l", "/a/b/z",
            "/a/bc", "/a/bc/x", "/o", "/o/s"} |->
        CASE p = "/a/b/f" -> File("A")
          [] p = "/a/b/d/f" -> File("B")
          [] p = "/a/b/l" -> Link("/o")
          [] p = "/a/b/z" -> Archive(<<Entry("../l/x", "Z")>>)
          [] p = "/a/bc/x" -> File("X")
          [] p = "/o/s" -> File("S")
          [] OTHER -> Dir]

\* The same disk after an earlier run left an entry in the trash.
UsedDisk ==
    Put(mkdir(Disk, trashDir).fs, trashPathOf("/a/b/g", timestampOf(0)), File("G"))

\* The disk of a server configured with the root /A/b, on storage that
\* tells upper case from lower case.
UpperDisk ==
    [p \in {"/", "/A", "/A/b", "/A/b/f", "/A/b/d", "/A/b/d/f"} |->
        CASE p = "/A/b/f" -> File("A")
          [] p = "/A/b/d/f" -> File("B")
          [] OTHER -> Dir]

\* lines 41-53: every directory of the command line exists.
directoriesExist(d, args) ==
    \A i \in 1..Len(args) : stat(d, args[i]) = [ok |-> TRUE, text |-> "dir"]

\* The server started with the command line args on the disk d, after
\* line 57.
Started(args, d) ==
    /\ argv = args
    /\ directoriesExist(d, args)
    /\ mkdir(d, trashDir).ok
    /\ fs = mkdir(d, trashDir).fs
    /\ now = 0
    /\ req = [r \in Slots |-> Idle]
    /\ started = 0
    /\ trashLog = {}
    /\ backupLog = {}
    /\ orphans = {}

\* A first start, or a start on the disk an earlier run left.
Init == Started(<<"/a/b">>, Disk) \/ Started(<<"/a/b">>, UsedDisk)

InitTrash == Started(<<"/a/b">>, UsedDisk)

InitUpper == Started(<<"/A/b">>, UpperDisk)

\* One request at a time.
Next ==
    \E r \in {1} :
        \/ CallTool(r)
        \/ RealpathTarget(r)
        \/ RealpathParent(r)
        \/ ReadFile(r)
        \/ UnitRealpath(r)
        \/ UnitParent(r)
        \/ UnitRead(r)
        \/ ReadMultipleJoin(r)
        \/ WriteFile(r)
        \/ CreateDirectory(r)
        \/ ListDirectory(r)
        \/ MoveFile(r)
        \/ SearchFiles(r)
        \/ GetFileInfo(r)
        \/ CopyFile(r)
        \/ BackupFile(r)
        \/ MoveToTrash(r)
        \/ EmptyTrashReaddir(r)
        \/ EmptyTrashRm(r)
        \/ EmptyTrashReturn(r)
        \/ RestoreFile(r)
        \/ ZipDirectory(r)
        \/ UnzipFile(r)
        \/ ListTrash(r)
        \/ RestoreFromBackup(r)
        \/ Respond(r)
        \/ EmptyTrashRmRejects(r)
        \/ OrphanRm

Spec == Init /\ [][Next]_vars

\* Requests to the trash, two in flight at a time.
NextTrash ==
    \E r \in Slots :
        \/ CallTrashTool(r)
        \/ RealpathTarget(r)
        \/ RealpathParent(r)
        \/ MoveToTrash(r)
        \/ EmptyTrashReaddir(r)
        \/ EmptyTrashRm(r)
        \/ EmptyTrashReturn(r)
        \/ Respond(r)
        \/ EmptyTrashRmRejects(r)
        \/ OrphanRm

SpecTrash == InitTrash /\ [][NextTrash]_vars

UpperCalls ==
    {Call("move_to_trash", <<p>>, "") : p \in {"/A/b/f", "/A/b/d/f"}}
    \cup {Call("list_trash", <<>>, "")}
    \cup {Call("read_file", <<p>>, "") : p \in {"/A/b/f", "/a/b/f"}}

CallUpperTool(r) == Accept(r, UpperCalls)

\* Requests to the trash of a server whose root has an upper-case letter.
NextUpper ==
    \E r \in {1} :
        \/ CallUpperTool(r)
        \/ RealpathTarget(r)
        \/ RealpathParent(r)
        \/ MoveToTrash(r)
        \/ ListTrash(r)
        \/ ReadFile(r)
        \/ Respond(r)

SpecUpper == InitUpper /\ [][NextUpper]_vars

(***************************************************************************)
(* Properties.                                                              *)
(***************************************************************************)
\* p is a root or continues one after a path separator.
UnderRoot(p) ==
    \E i \in 1..Len(allowedDirectories) : Within(p, allowedDirectories[i])

\* The outcomes of the validatePath calls of the requests in flight.
Outcomes == UNION {{req[r].auth[i] : i \in DOMAIN req[r].auth} : r \in Slots}

OkPaths(rq) == {rq.auth[i].path : i \in {j \in DOMAIN rq.auth : rq.auth[j].kind = "ok"}}

Denied(rq) == \E i \in DOMAIN rq.auth : rq.auth[i].kind # "ok"

PrimPaths(rq) ==
    UNION {{rq.prims[i].paths[k] : k \in DOMAIN rq.prims[i].paths} : i \in DOMAIN rq.prims}

\* The io step of request r settles.
Settles(r, tools) ==
    /\ req[r].pc = "io"
    /\ req[r].tool \in tools
    /\ req'[r].pc = "done"

\* C1: validatePath returns a path only when the normalized path is a root
\* or continues a root after a path separator; with the root /a/b, /a/bc/x is
\* refused.
C1_SegmentPrefix ==
    \A o \in Outcomes : o.kind = "ok" => UnderRoot(normalizePath(o.abs))

\* C2: for an existing path that is lexically inside a root and whose real
\* path is outside every root, validatePath throws access denied and returns
\* no path.
C2_SymlinkEscapeDenied ==
    \A o \in Outcomes :
        (/\ UnderRoot(normalizePath(o.abs))
         /\ o.real # ""
         /\ ~UnderRoot(normalizePath(o.real)))
        => o.kind = "AccessDenied"

\* C3: unzip_file never creates or changes a node outside the roots, whatever
\* the names of the archive's entries.
C3_ExtractionStaysInside ==
    \A r \in Slots :
        req[r].tool = "unzip_file" =>
            \A p \in req[r].touched : UnderRoot(normalizePath(p))

\* C4, as the claim states it: a request makes a filesystem call only after
\* validatePath has returned for every path the caller gave, and only on
\* paths validatePath returned or paths under the trash directory; when
\* validatePath throws for a path, the request ends in an error and the
\* filesystem is unchanged.
C4_AuthorizeFirst ==
    \A r \in Slots :
        /\ req[r].prims # <<>> =>
              /\ ~Denied(req[r])
              /\ Len(req[r].auth) =
                    Len(IF req[r].tool = "read_multiple_files" THEN req[r].paths
                        ELSE Operands(req[r].tool, req[r].paths))
        /\ \A p \in PrimPaths(req[r]) : p \in OkPaths(req[r]) \/ Within(p, trashDir)
        /\ Denied(req[r]) =>
              /\ req[r].pc = "done" => ~req[r].res.ok
              /\ req[r].touched = {}

\* C4, amended: every request but read_multiple_files makes a filesystem
\* call only after validatePath has returned for every path of the request,
\* and only on paths validatePath returned, paths below one of them, or paths
\* under the trash directory; when validatePath throws, the request ends in
\* an error with no filesystem call made and nothing changed.
\* read_multiple_files reads each path for which validatePath returned, on
\* the path it returned, and changes nothing.
C4_AuthorizeFirstAmended ==
    \A r \in Slots :
        IF req[r].tool = "read_multiple_files"
        THEN /\ PrimPaths(req[r]) \subseteq OkPaths(req[r])
             /\ req[r].touched = {}
        ELSE /\ req[r].prims # <<>> =>
                   /\ ~Denied(req[r])
                   /\ Len(req[r].auth) = Len(Operands(req[r].tool, req[r].paths))
             /\ \A p \in PrimPaths(req[r]) :
                   \/ Within(p, trashDir)
                   \/ \E v \in OkPaths(req[r]) : Within(p, v)
             /\ Denied(req[r]) =>
                   /\ req[r].pc = "done"
                   /\ ~req[r].res.ok
                   /\ req[r].prims = <<>>
                   /\ req[r].touched = {}

\* A move_file whose destination validatePath refused has ended in an error
\* without a filesystem call.
C4_Witness ==
    \E r \in Slots :
        /\ req[r].tool = "move_file"
        /\ req[r].pc = "done"
        /\ Len(req[r].auth) = 2
        /\ req[r].auth[1].kind = "ok"
        /\ req[r].auth[2].kind = "AccessDenied"
        /\ ~req[r].res.ok
        /\ req[r].prims = <<>>

\* C5: when the path does not exist and its parent directory resolves
\* outside every root, validatePath throws access denied; it reports a
\* missing parent only when the parent does not resolve.
C5_DenialNotDowngraded ==
    \A o \in Outcomes :
        /\ (o.real = "" /\ o.preal # "" /\ ~UnderRoot(normalizePath(o.preal)))
              => o.kind = "AccessDenied"
        /\ o.kind = "ParentMissing" => o.preal = ""

\* C6: restore_file naming an entry move_to_trash made (its name in the
\* trash) succeeds, the entry is gone from the trash and the file is back at
\* the path it was moved from, with the content it had.
C6_TrashRoundTrip ==
    [][\A r \in Slots : \A t \in trashLog :
          (/\ Settles(r, {"restore_file"})
           /\ req[r].paths[1] = basename(t.entry)
           /\ t.entry \in DOMAIN fs
           /\ fs[t.entry] = t.node
           /\ t.orig \notin DOMAIN fs)
          => /\ req'[r].res.ok
             /\ t.entry \notin DOMAIN fs'
             /\ t.orig \in DOMAIN fs'
             /\ fs'[t.orig] = t.node]_vars

\* C7: copy_file and move_file to a destination that exists end in an error
\* and change nothing; restore_from_backup to a destination that exists
\* succeeds, the destination gets the backup's content and the backup stays.
C7_OverwriteAsymmetry ==
    [][\A r \in Slots :
          /\ (/\ Settles(r, {"move_file", "copy_file"})
              /\ realpath(fs, req[r].valid[2]).ok)
             => (~req'[r].res.ok /\ fs' = fs)
          /\ (/\ Settles(r, {"restore_from_backup"})
              /\ readFile(fs, req[r].valid[1]).ok
              /\ readFile(fs, req[r].valid[2]).ok)
             => /\ req'[r].res.ok
                /\ readFile(fs', req[r].valid[2]) = readFile(fs, req[r].valid[1])
                /\ readFile(fs', req[r].valid[1]) = readFile(fs, req[r].valid[1])]_vars

\* A confirmed empty_trash has returned success.
Purged(r) ==
    /\ req[r].tool = "empty_trash"
    /\ req[r].opt = "true"
    /\ req[r].pc = "done"
    /\ req[r].res.ok

\* C8, as the claim states it: when empty_trash with confirm true returns
\* success the trash directory holds no entry, under every interleaving with
\* other requests.
C8_PurgeLeavesNothing == \A r \in Slots : Purged(r) => req[r].left = {}

\* C8, amended: when empty_trash with confirm true returns success, every
\* entry the trash directory holds appeared in it after the purge listed the
\* directory.
C8_PurgeLeavesOnlyAdded ==
    \A r \in Slots : Purged(r) => req[r].left \subseteq req[r].added

\* A purge that removed entries returned while the trash held an entry moved
\* there in the meantime.
C8_Witness ==
    \E r \in Slots :
        /\ Purged(r)
        /\ \E i \in DOMAIN req[r].prims : req[r].prims[i].op = "rm"
        /\ req[r].touched # {}
        /\ req[r].left # {}

\* C9: empty_trash with confirm false or absent returns the message asking
\* for confirmation, makes no filesystem call and changes no node.
C9_UnconfirmedIsNoOp ==
    \A r \in Slots :
        (req[r].tool = "empty_trash" /\ req[r].opt # "true") =>
            /\ req[r].pc = "done"
            /\ req[r].res = [ok |-> TRUE, text |-> ConfirmMessage]
            /\ req[r].prims = <<>>
            /\ req[r].touched = {}

\* An unconfirmed empty_trash has returned and the trash still holds an
\* entry.
C9_Witness ==
    \E r \in Slots :
        /\ req[r].tool = "empty_trash"
        /\ req[r].opt \in {"false", "absent"}
        /\ req[r].pc = "done"
        /\ TrashNames(fs) # {}

\* The backup that the backup_file request rq is about to write.
BackupOf(rq) == Backup(rq.valid[1], rq.valid[2], timestampOf(rq.ts))

\* C10, as the claim states it: a successful backup_file leaves every
\* backup made before in place with its content, also when two backups of
\* the same base name go to the same directory at the same clock reading.
C10_BackupNeverOverwrites ==
    [][\A r \in Slots :
          (Settles(r, {"backup_file"}) /\ req'[r].res.ok) =>
              \A b \in backupLog :
                  b.path \in DOMAIN fs =>
                      b.path \in DOMAIN fs' /\ fs'[b.path] = fs[b.path]]_vars

\* C10, amended: a successful backup_file writes the source's content to
\* <destinationDir>/<baseName>.<timestamp>.backup, leaves the source as it
\* was, and leaves in place with its content every backup made before except
\* one of the same base name into the same directory at the same clock
\* reading.
C10_BackupKeepsOthers ==
    [][\A r \in Slots :
          (Settles(r, {"backup_file"}) /\ req'[r].res.ok) =>
              /\ readFile(fs', BackupOf(req[r]).path) = readFile(fs, req[r].valid[1])
              /\ readFile(fs', req[r].valid[1]) = readFile(fs, req[r].valid[1])
              /\ \A b \in backupLog :
                    (b.path \in DOMAIN fs /\ b # BackupOf(req[r])) =>
                        b.path \in DOMAIN fs' /\ fs'[b.path] = fs[b.path]]_vars

\* A second backup has been written and both backups are there.
C10_Witness ==
    \E r \in Slots :
        /\ req[r].tool = "backup_file"
        /\ req[r].pc = "done"
        /\ req[r].res.ok
        /\ Cardinality(backupLog) = 2
        /\ \A b \in backupLog : b.path \in DOMAIN fs

\* C11: a confirmed empty_trash returns its result only when every fs.rm it
\* started has settled, also when one of them rejects, so that the result
\* can report every entry that failed.
C11_PurgeJoins ==
    \A r \in Slots :
        (req[r].tool = "empty_trash" /\ req[r].opt = "true" /\ req[r].pc = "done")
            => req[r].pending = {}

\* The first directory of the command line, as it is on the disk.
firstRoot == resolve(Cwd, expandHome(Args[1]))

\* C12: the trash directory is inside the first root as it is on the disk,
\* also when the root is written with upper-case letters, and every entry
\* move_to_trash made is directly under the trash directory.
C12_TrashInsideFirstRoot ==
    /\ Within(trashDir, firstRoot)
    /\ \A t \in trashLog :
          /\ dirname(t.entry) = trashDir
          /\ Within(t.entry, firstRoot)

\* The only two requests of the behaviour are move_to_trash requests for the
\* file p, both in flight together and both returned.
BothTrashed(p) ==
    /\ started = 2
    /\ \A r \in Slots :
          /\ req[r].tool = "move_to_trash"
          /\ req[r].paths = <<p>>
          /\ req[r].pc = "done"

\* The trash entries that hold the node.
EntriesHolding(node) == {e \in Children(fs, trashDir) : fs[e] = node}

\* C13: of two concurrent move_to_trash requests for the same existing
\* file, under every interleaving of their validatePath and rename steps,
\* exactly one succeeds and the other ends in the error of a missing source;
\* then the file is gone from its path and exactly one trash entry holds
\* its content.
C13_OneMoveWins ==
    \A p \in {"/a/b/f", "/a/b/d/f"} :
        BothTrashed(p) =>
            /\ \E r \in Slots :
                  /\ req[r].res.ok
                  /\ \A q \in Slots \ {r} : req[q].res = [ok |-> FALSE, text |-> "ENOENT"]
            /\ p \notin DOMAIN fs
            /\ Cardinality(EntriesHolding(UsedDisk[p])) = 1

\* Two move_to_trash requests for /a/b/f have both returned, the one that
\* validated the path after the other's rename included.
C13_Witness ==
    /\ BothTrashed("/a/b/f")
    /\ \E r \in Slots : req[r].auth[1].real = ""

\* C14: a successful move_to_trash makes an entry of its own: every entry
\* the trash held keeps its content and the trash holds one entry more, also
\* when files of the same base name from different directories are moved at
\* the same clock reading.
C14_TrashKeepsEntries ==
    [][\A r \in Slots :
          (Settles(r, {"move_to_trash"}) /\ req'[r].res.ok) =>
              /\ \A e \in Children(fs, trashDir) :
                    e \in DOMAIN fs' /\ fs'[e] = fs[e]
              /\ Cardinality(Children(fs', trashDir))
                    = Cardinality(Children(fs, trashDir)) + 1]_vars

====
